---- MODULE Spec2Model ----
(***************************************************************************)
(* wither: schema migrations (src/migration.rs).                           *)
(*                                                                         *)
(* Several service instances boot, and at boot each runs the migrations    *)
(* of a model, in order, against one shared collection.  An                *)
(* IntervalMigration::execute compares the clock with the threshold,       *)
(* assembles an update document from `set` and `unset`, issues one         *)
(* update_many to the store and interprets the response.  The store        *)
(* applies a multi-document update one document at a time, so updates of   *)
(* different instances interleave, and it may fail at any point.           *)
(***************************************************************************)
EXTENDS Integers, Sequences, FiniteSets, TLC

(* ------------------------------ bounds --------------------------------- *)

\* Number of service instances sharing the collection.
NumInstances == 2
\* The clock runs over 0..MaxTime.
MaxTime == 2
\* Largest collection drawn by Init.
MaxDocs == 2
\* Total number of boots (runs of the migration list) over all instances.
MaxBoots == 2
\* Longest migration list drawn by InitRunner.
MaxMigrations == 2

\* Largest replica set a write concern is judged against.
MaxMembers == 3
\* Longest index list of a model struct.
MaxIndexes == 2
\* Documents the instances still running the old code insert.
MaxInserts == 1

Instances == 1..NumInstances

(* ---------------------------- documents -------------------------------- *)

\* A bson Document: a function from the keys it holds to their values.
EmptyDoc == [k \in {} |-> 0]

\* Document::insert_bson(key, value): insert or overwrite one key.
InsertBson(d, k, v) == [x \in DOMAIN d \cup {k} |-> IF x = k THEN v ELSE d[x]]

OnlyLegacy == InsertBson(EmptyDoc, "legacy", 0)

\* The documents the initial collections are drawn from.
InitDocs ==
  { d \in UNION { [S -> {0, 1}] : S \in SUBSET {"a", "legacy"} } :
      /\ "a" \in DOMAIN d
      /\ "legacy" \in DOMAIN d => d["legacy"] = 0 }

\* Option<Document>: the empty set is None, {d} is Some(d).
None == {}
Some(d) == {d}
Unwrap(o) == CHOOSE d \in o : TRUE

\* A query condition on one field: {"$exists": true} or equality with a value.
Exists == [op |-> "$exists", arg |-> 1]
Eq(v) == [op |-> "$eq", arg |-> v]

\* The filters migrations are drawn with: {}, {legacy: {$exists: true}}, {a: 0}.
Filters ==
  { EmptyDoc, InsertBson(EmptyDoc, "legacy", Exists), InsertBson(EmptyDoc, "a", Eq(0)) }

\* The `set` and `unset` options migrations are drawn with.
SetOptions == { None, Some(InsertBson(EmptyDoc, "a", 1)) }
UnsetOptions == { None, Some(OnlyLegacy) }

\* The thresholds migrations are drawn with: the clock reaches and passes them.
Thresholds == 1..(MaxTime - 1)

\* struct IntervalMigration (the name is used for logging only).
IntervalMigration ==
  [threshold : Thresholds, filter : Filters, set : SetOptions, unset : UnsetOptions]

(* ------------------------------ results -------------------------------- *)

Ok == [tag |-> "Ok", detail |-> ""]
\* Err(DefaultError("One of '$set' or '$unset' must be specified."))
ConfigurationError ==
  [tag |-> "DefaultError", detail |-> "One of '$set' or '$unset' must be specified."]
\* Err(WriteError(err))
WriteError(err) == [tag |-> "WriteError", detail |-> err]
\* The errors update_many itself can fail with (transport or protocol level).
StoreErrors ==
  { [tag |-> "IoError", detail |-> "connection reset"],
    [tag |-> "OperationError", detail |-> "not authorized"] }
\* The write exceptions a response can carry.
WriteExceptions == { "wx1", "wx2" }

IsErr(r) == r.tag # "Ok"

(* -------------------------- execute, pure parts ------------------------ *)

\* Faulty variant of ThresholdPassed: the comparison is the wrong way round.
ThresholdPassedReversed(t, threshold) == t < threshold

\* Faulty variants of ThresholdPassed: the no-op starts one tick late; the
\* no-op starts at the threshold itself.
ThresholdPassedLate(t, threshold) == t > threshold + 1
ThresholdPassedAtOrAfter(t, threshold) == t >= threshold

\* if chrono::Utc::now() > self.threshold
ThresholdPassed(t, threshold) == t > threshold

\* Faulty variant of NothingSpecified: one of the two absent is enough.
NothingSpecifiedEither(m) == m.set = None \/ m.unset = None

\* self.set.clone().is_none() && self.unset.clone().is_none()
NothingSpecified(m) == m.set = None /\ m.unset = None

\* Faulty variant of Decide: the missing set/unset is reported before the threshold
\* is looked at.
DecideConfigFirst(t, m) ==
  IF NothingSpecified(m) THEN "error"
  ELSE IF ThresholdPassed(t, m.threshold) THEN "noop"
  ELSE "update"

\* The start of execute: no-op once the threshold has been passed, else an
\* error if neither set nor unset is given, else the update is issued.
Decide(t, m) ==
  IF ThresholdPassed(t, m.threshold) THEN "noop"
  ELSE IF NothingSpecified(m) THEN "error"
  ELSE "update"

\* Faulty variants of BuildUpdate: the "$unset" clause is only built when set is
\* absent; the unset document is inserted under "$set".
BuildUpdateElseIf(m) ==
  IF m.set # None THEN InsertBson(EmptyDoc, "$set", Unwrap(m.set))
  ELSE IF m.unset # None THEN InsertBson(EmptyDoc, "$unset", Unwrap(m.unset))
  ELSE EmptyDoc
BuildUpdateWrongKey(m) ==
  LET withSet == IF m.set # None
                 THEN InsertBson(EmptyDoc, "$set", Unwrap(m.set))
                 ELSE EmptyDoc
  IN IF m.unset # None
     THEN InsertBson(withSet, "$set", Unwrap(m.unset))
     ELSE withSet

\* The update document: a "$set" clause if set is present, a "$unset" clause
\* if unset is present.
BuildUpdate(m) ==
  LET withSet == IF m.set # None
                 THEN InsertBson(EmptyDoc, "$set", Unwrap(m.set))
                 ELSE EmptyDoc
  IN IF m.unset # None
     THEN InsertBson(withSet, "$unset", Unwrap(m.unset))
     ELSE withSet

\* Faulty variant of BuildOptions: the write is not journaled.
BuildOptionsNoJournal ==
  [upsert |-> FALSE,
   write_concern |-> [w |-> 1, w_timeout |-> 0, j |-> FALSE, fsync |-> FALSE]]

\* Faulty variant of BuildOptions: upsert enabled.
BuildOptionsUpsert ==
  [upsert |-> TRUE,
   write_concern |-> [w |-> 1, w_timeout |-> 0, j |-> TRUE, fsync |-> FALSE]]

\* UpdateOptions{upsert: Some(false), write_concern: Some(WriteConcern{..})}
BuildOptions ==
  [upsert |-> FALSE,
   write_concern |-> [w |-> 1, w_timeout |-> 0, j |-> TRUE, fsync |-> FALSE]]

\* Faulty variant of Propagate: the error is wrapped into a DefaultError.
PropagateWrapped(err) == [tag |-> "DefaultError", detail |-> err.detail]

\* The `?` on update_many's result: an Err returns from execute as it is.
Propagate(err) == err

\* Faulty variant of InterpretResponse: a write exception is an error only when
\* nothing was modified.
InterpretResponseLenient(res) ==
  IF res.write_exception # None /\ res.modified_count = 0
  THEN WriteError(Unwrap(res.write_exception))
  ELSE Ok

\* What execute returns for an Ok(res) from update_many.
InterpretResponse(res) ==
  IF res.write_exception # None THEN WriteError(Unwrap(res.write_exception)) ELSE Ok

(* ------------------------------ the store ------------------------------ *)

\* Whether a document satisfies one condition on field f.
Holds(d, f, c) ==
  IF c.op = "$exists" THEN f \in DOMAIN d
  ELSE f \in DOMAIN d /\ d[f] = c.arg

\* Whether a document matches a filter (every condition holds).
Matches(filter, d) == \A f \in DOMAIN filter : Holds(d, f, filter[f])

\* A document after "$set" (fields assigned) and "$unset" (fields removed).
ApplyUpdate(update, d) ==
  LET s == IF "$set" \in DOMAIN update THEN update["$set"] ELSE EmptyDoc
      u == IF "$unset" \in DOMAIN update THEN update["$unset"] ELSE EmptyDoc
      keys == (DOMAIN d \cup DOMAIN s) \ DOMAIN u
  IN [k \in keys |-> IF k \in DOMAIN s THEN s[k] ELSE d[k]]

\* The document an upsert inserts when nothing matched: the filter's equality
\* fields, then the update.
UpsertDoc(filter, update) ==
  LET eqs == { f \in DOMAIN filter : filter[f].op = "$eq" }
  IN ApplyUpdate(update, [f \in eqs |-> filter[f].arg])

(* ------------------------------ the derive ----------------------------- *)

\* The serde attributes an `id` field can carry: each is there with the
\* required value or missing.
IdFields ==
  [rename : {"", "_id"}, skip_serializing_if : {"", "Option::is_none"}]

\* BadModel: a field named id without the serde attributes.
BadModelId == [rename |-> "", skip_serializing_if |-> ""]

\* mongodb::coll::options::IndexModel values.
IndexModels == {"ix_a", "ix_b"}

\* The structs Model is derived for: the `id` field (an Option: the struct may
\* have none) and the indexes it declares.
ModelStructs ==
  [id : {None} \cup {Some(f) : f \in IdFields},
   indexes : UNION { [1..n -> IndexModels] : n \in 0..MaxIndexes }]

\* A struct the derive accepts, with one index.
GoodModel ==
  [id |-> Some([rename |-> "_id", skip_serializing_if |-> "Option::is_none"]),
   indexes |-> <<"ix_a">>]

\* Faulty variant of ValidId: a field named id is enough.
ValidIdNamedOnly(s) == s.id # None

\* The derive's test of the struct: a field named `id` carrying
\* #[serde(rename="_id", skip_serializing_if="Option::is_none")].
ValidId(s) ==
  \E f \in s.id : f.rename = "_id" /\ f.skip_serializing_if = "Option::is_none"

\* Indexes::to_tokens: appends `vec!`, `[` and `]` to the token stream (the
\* loop over the wrapped index models is commented out).
ToTokens(self, tokens) == tokens \o <<"vec", "!">> \o <<"[">> \o <<"]">>

(* ------------------------------- state --------------------------------- *)

VARIABLES
  now,          \* the clock (chrono::Utc::now())
  coll,         \* the collection: a sequence of documents
  migrations,   \* the model's migrations, in declaration order
  pc,           \* per instance: "idle", "ready", "updating", "returned", "done"
  idx,          \* per instance: the Runner's place in the migration list
  results,      \* per instance: the executes of this boot, [index, res], in order
  request,      \* per instance: the update_many in flight
  response,     \* per instance: what update_many returned to this execute (Option)
  storeCalls,   \* per instance: update_many calls issued by the current execute
  startTime,    \* per instance: the clock read by the current execute
  runnerResult, \* per instance: what the finished boot returned
  boots,        \* boots so far, over all instances
  coll0,        \* the initial collection
  prev,         \* per instance: the execute before the current one (Option)
  source,       \* the struct Model is derived for
  build,        \* the build of the program: "pending", "rejected", "derived"
  tokens,       \* the token stream the derive emitted for the struct's indexes
  final         \* per instance: every other instance was updated when it booted

vars ==
  <<now, coll, migrations, pc, idx, results, request, response, storeCalls,
    startTime, runnerResult, boots, coll0, prev, source, build, tokens, final>>

\* What the build fixes: nothing at run time changes it.
built == <<source, build, tokens>>

NoRequest ==
  [filter |-> EmptyDoc, update |-> EmptyDoc, options |-> BuildOptions,
   cursor |-> 0, matched_count |-> 0, modified_count |-> 0]

\* The migration instance i is executing, and what its last execute returned.
Current(i) == migrations[idx[i]]
Result(i) == results[i][Len(results[i])].res

InitRunTime ==
  /\ now = 0
  /\ coll0 = coll
  /\ pc = [i \in Instances |-> "idle"]
  /\ idx = [i \in Instances |-> 1]
  /\ results = [i \in Instances |-> <<>>]
  /\ request = [i \in Instances |-> NoRequest]
  /\ response = [i \in Instances |-> None]
  /\ storeCalls = [i \in Instances |-> 0]
  /\ startTime = [i \in Instances |-> 0]
  /\ runnerResult = [i \in Instances |-> Ok]
  /\ boots = 0
  /\ prev = [i \in Instances |-> None]
  /\ final = [i \in Instances |-> FALSE]

\* The build has accepted the struct and derived Model for it.
Derived ==
  /\ source = GoodModel
  /\ build = "derived"
  /\ tokens = ToTokens(source.indexes, <<>>)

InitCommon ==
  /\ Derived
  /\ InitRunTime

\* Any small collection, one migration.
Init ==
  /\ coll \in UNION { [1..n -> InitDocs] : n \in 1..MaxDocs }
  /\ migrations \in [1..1 -> IntervalMigration]
  /\ InitCommon

\* The documents of the scenario: with and without the field legacy.
WithLegacy == InsertBson(OnlyLegacy, "a", 0)
WithoutLegacy == InsertBson(EmptyDoc, "a", 0)

\* The migration of the module's example: drop a field from the documents
\* that have it, with a threshold the clock never passes.
DropLegacy ==
  [threshold |-> MaxTime, filter |-> InsertBson(EmptyDoc, "legacy", Exists),
   set |-> None, unset |-> Some(OnlyLegacy)]

\* The scenario: three documents with the field legacy, two without.
InitScenario ==
  /\ coll = <<WithLegacy, WithoutLegacy, WithLegacy, WithoutLegacy, WithLegacy>>
  /\ migrations = <<DropLegacy>>
  /\ InitCommon

\* One collection, any list of migrations.
InitRunner ==
  /\ coll = <<WithLegacy>>
  /\ migrations \in UNION { [1..n -> IntervalMigration] : n \in 1..MaxMigrations }
  /\ InitCommon

\* A migration that assigns a, before and at its threshold.
SetA ==
  [threshold |-> 1, filter |-> EmptyDoc,
   set |-> Some(InsertBson(EmptyDoc, "a", 1)), unset |-> None]

\* Before the build: any struct, and the program that runs if it builds.
InitDerive ==
  /\ source \in ModelStructs
  /\ build = "pending"
  /\ tokens = <<>>
  /\ coll = <<WithLegacy>>
  /\ migrations = <<SetA>>
  /\ InitRunTime

\* A rolling deployment: one document, one migration, no instance updated yet.
InitRolling ==
  /\ coll \in [1..1 -> InitDocs]
  /\ migrations \in [1..1 -> IntervalMigration]
  /\ InitCommon

(* ------------------------------ actions -------------------------------- *)

\* The clock advances.
Tick ==
  /\ now < MaxTime
  /\ now' = now + 1
  /\ UNCHANGED <<coll, migrations, pc, idx, results, request, response,
                 storeCalls, startTime, runnerResult, boots, coll0, prev>>
  /\ UNCHANGED <<built, final>>

\* Instance i boots (or restarts) and its Runner starts on the first migration.
Boot(i) ==
  /\ build = "derived"
  /\ pc[i] \in {"idle", "done"}
  /\ boots < MaxBoots
  /\ boots' = boots + 1
  /\ pc' = [pc EXCEPT ![i] = "ready"]
  /\ idx' = [idx EXCEPT ![i] = 1]
  /\ results' = [results EXCEPT ![i] = <<>>]
  /\ runnerResult' = [runnerResult EXCEPT ![i] = Ok]
  /\ final' = [final EXCEPT ![i] = \A j \in Instances \ {i} : pc[j] # "idle"]
  /\ UNCHANGED <<now, coll, migrations, request, response, storeCalls,
                 startTime, coll0, prev, built>>

\* execute returns res to the Runner of instance i.
Returns(i, res) ==
  /\ results' = [results EXCEPT ![i] = Append(@, [index |-> idx[i], res |-> res])]
  /\ pc' = [pc EXCEPT ![i] = "returned"]

\* IntervalMigration::execute up to its return or its call of update_many.
Execute(i) ==
  /\ pc[i] = "ready"
  /\ startTime' = [startTime EXCEPT ![i] = now]
  /\ response' = [response EXCEPT ![i] = None]
  /\ LET m == migrations[idx[i]]
         d == Decide(now, m)
     IN IF d = "update"
        THEN /\ request' = [request EXCEPT ![i] =
                  [filter |-> m.filter, update |-> BuildUpdate(m),
                   options |-> BuildOptions, cursor |-> 0,
                   matched_count |-> 0, modified_count |-> 0]]
             /\ storeCalls' = [storeCalls EXCEPT ![i] = 1]
             /\ pc' = [pc EXCEPT ![i] = "updating"]
             /\ UNCHANGED results
        ELSE /\ Returns(i, IF d = "noop" THEN Ok ELSE ConfigurationError)
             /\ storeCalls' = [storeCalls EXCEPT ![i] = 0]
             /\ UNCHANGED request
  /\ UNCHANGED <<now, coll, migrations, idx, runnerResult, boots, coll0, prev>>
  /\ UNCHANGED <<built, final>>

\* Instance i has changed a document: the earlier executes of the other
\* instances are no longer undisturbed.
Disturb(i, changed) ==
  [j \in Instances |->
     IF j # i /\ changed
     THEN { [p EXCEPT !.undisturbed = FALSE] : p \in prev[j] }
     ELSE prev[j]]

\* The store handles the next document of instance i's update_many: if it
\* matches the filter the update is applied to it, atomically.
StoreApply(i) ==
  /\ pc[i] = "updating"
  /\ request[i].cursor < Len(coll)
  /\ LET r == request[i]
         k == r.cursor + 1
         hit == Matches(r.filter, coll[k])
         d == IF hit THEN ApplyUpdate(r.update, coll[k]) ELSE coll[k]
     IN /\ coll' = [coll EXCEPT ![k] = d]
        /\ request' = [request EXCEPT ![i] =
             [r EXCEPT !.cursor = k,
                       !.matched_count = @ + (IF hit THEN 1 ELSE 0),
                       !.modified_count = @ + (IF d # coll[k] THEN 1 ELSE 0)]]
        /\ prev' = Disturb(i, d # coll[k])
  /\ UNCHANGED <<now, migrations, pc, idx, results, response, storeCalls,
                 startTime, runnerResult, boots, coll0, built, final>>

\* An upsert that matched nothing inserts a document.
Upserted(r) ==
  IF r.options.upsert /\ r.matched_count = 0
  THEN Append(coll, UpsertDoc(r.filter, r.update))
  ELSE coll

\* Result<UpdateResult>: Ok(res), with the counts so far and the write
\* exception wx (an Option).
OkResponse(r, wx) ==
  [ok |-> TRUE, matched_count |-> r.matched_count,
   modified_count |-> r.modified_count, write_exception |-> wx, error |-> Ok]

\* Result<UpdateResult>: Err(e).
ErrResponse(e) ==
  [ok |-> FALSE, matched_count |-> 0, modified_count |-> 0,
   write_exception |-> None, error |-> e]

\* The rest of execute once update_many has returned.
AfterUpdateMany(rsp) ==
  IF rsp.ok THEN InterpretResponse(rsp) ELSE Propagate(rsp.error)

\* update_many returns rsp to instance i and execute returns.
Return(i, rsp) ==
  /\ response' = [response EXCEPT ![i] = Some(rsp)]
  /\ request' = [request EXCEPT ![i] = NoRequest]
  /\ Returns(i, AfterUpdateMany(rsp))

\* update_many returns Ok(res) without a write exception, every document
\* handled.
StoreReply(i) ==
  /\ pc[i] = "updating"
  /\ request[i].cursor = Len(coll)
  /\ Return(i, OkResponse(request[i], None))
  /\ coll' = Upserted(request[i])
  /\ prev' = Disturb(i, coll' # coll)
  /\ UNCHANGED <<now, migrations, idx, storeCalls, startTime, runnerResult,
                 boots, coll0, built, final>>

\* update_many returns Ok(res) carrying a write exception: the update stopped
\* at some document, those before it stay updated.
StoreWriteException(i) ==
  /\ pc[i] = "updating"
  /\ \E wx \in WriteExceptions : Return(i, OkResponse(request[i], Some(wx)))
  /\ UNCHANGED <<now, coll, migrations, idx, storeCalls, startTime,
                 runnerResult, boots, coll0, prev, built, final>>

\* update_many fails at the transport or protocol level, whatever the store
\* has applied so far.
StoreFail(i) ==
  /\ pc[i] = "updating"
  /\ \E e \in StoreErrors : Return(i, ErrResponse(e))
  /\ UNCHANGED <<now, coll, migrations, idx, storeCalls, startTime,
                 runnerResult, boots, coll0, prev, built, final>>

\* Faulty variant of RunnerAfter: an error does not end the run.
RunnerAfterKeepGoing(res, k, total) ==
  IF k < total THEN [pc |-> "ready", idx |-> k + 1, result |-> Ok]
  ELSE [pc |-> "done", idx |-> k, result |-> res]

\* The Runner, given what the execute at place k of total returned: the first
\* error ends the run and is returned, otherwise the next migration is next.
RunnerAfter(res, k, total) ==
  IF IsErr(res) THEN [pc |-> "done", idx |-> k, result |-> res]
  ELSE IF k < total THEN [pc |-> "ready", idx |-> k + 1, result |-> Ok]
  ELSE [pc |-> "done", idx |-> k, result |-> Ok]

\* The Runner of instance i takes the result of the execute that returned.
RunnerStep(i) ==
  /\ pc[i] = "returned"
  /\ LET nxt == RunnerAfter(Result(i), idx[i], Len(migrations)) IN
     /\ pc' = [pc EXCEPT ![i] = nxt.pc]
     /\ idx' = [idx EXCEPT ![i] = nxt.idx]
     /\ runnerResult' = [runnerResult EXCEPT ![i] = nxt.result]
  /\ prev' = [prev EXCEPT ![i] =
       Some([tag |-> Result(i).tag, index |-> idx[i], calls |-> storeCalls[i],
             modified |-> IF response[i] = None THEN 0
                          ELSE Unwrap(response[i]).modified_count,
             snap |-> coll, undisturbed |-> TRUE])]
  /\ response' = [response EXCEPT ![i] = None]
  /\ storeCalls' = [storeCalls EXCEPT ![i] = 0]
  /\ startTime' = [startTime EXCEPT ![i] = 0]
  /\ UNCHANGED <<now, coll, migrations, results, request, boots, coll0,
                 built, final>>

Next ==
  \/ Tick
  \/ \E i \in Instances : Boot(i)
  \/ \E i \in Instances : Execute(i)
  \/ \E i \in Instances : StoreApply(i)
  \/ \E i \in Instances : StoreReply(i)
  \/ \E i \in Instances : StoreWriteException(i)
  \/ \E i \in Instances : StoreFail(i)
  \/ \E i \in Instances : RunnerStep(i)

Spec == Init /\ [][Next]_vars

SpecScenario == InitScenario /\ [][Next]_vars

SpecRunner == InitRunner /\ [][Next]_vars

\* The build: the derive rejects the struct, or derives Model for it and
\* emits the tokens of its indexes.
DeriveModel ==
  /\ build = "pending"
  /\ IF ValidId(source)
     THEN /\ build' = "derived"
          /\ tokens' = ToTokens(source.indexes, tokens)
     ELSE /\ build' = "rejected"
          /\ tokens' = tokens
  /\ UNCHANGED <<now, coll, migrations, pc, idx, results, request, response,
                 storeCalls, startTime, runnerResult, boots, coll0, prev,
                 source, final>>

NextDerive == DeriveModel \/ Next

\* The build of the program, then its runs.
SpecDerive == InitDerive /\ [][NextDerive]_vars

\* An instance still running the old code inserts a document with the old
\* schema.  An update_many that has already gone through the collection does
\* not see it; one still going through the collection does.
InsertOld ==
  /\ \E j \in Instances : pc[j] = "idle"
  /\ Len(coll) < Len(coll0) + MaxInserts
  /\ coll' = Append(coll, WithLegacy)
  /\ request' = [i \in Instances |->
       IF pc[i] = "updating" /\ request[i].cursor = Len(coll)
       THEN [request[i] EXCEPT !.cursor = Len(coll) + 1]
       ELSE request[i]]
  /\ prev' = Disturb(0, TRUE)
  /\ UNCHANGED <<now, migrations, pc, idx, results, response, storeCalls,
                 startTime, runnerResult, boots, coll0, built, final>>

NextRolling == InsertOld \/ Next

\* The instances are updated one after the other, the old ones inserting.
SpecRolling == InitRolling /\ [][NextRolling]_vars

TypeOK ==
  /\ now \in 0..MaxTime
  /\ boots \in 0..MaxBoots
  /\ \A i \in Instances : pc[i] \in {"idle", "ready", "updating", "returned", "done"}

(* ------------------------- properties of execute ----------------------- *)

\* Instance i's execute has returned (and its Runner has not yet gone on).
Returned(i) == pc[i] = "returned"

\* Both `set` and `unset` are None in the migration instance i executes.
BothAbsent(i) == Current(i).set = {} /\ Current(i).unset = {}

\* C1 as stated: an execute of a migration with set and unset both absent
\* returns the configuration error whatever the threshold is.
C1_Original ==
  \A i \in Instances :
    Returned(i) /\ BothAbsent(i) => Result(i) = ConfigurationError

\* C1, amended: an execute of a migration with set and unset both absent
\* returns the configuration error when the clock it reads is not after the
\* threshold, whatever the filter, and returns success when the clock is after
\* the threshold.
C1_ConfigurationGuard ==
  \A i \in Instances :
    Returned(i) /\ BothAbsent(i) =>
      /\ startTime[i] <= Current(i).threshold => Result(i) = ConfigurationError
      /\ startTime[i] > Current(i).threshold => Result(i) = Ok

C1_Witness ==
  \E i \in Instances :
    /\ Returned(i) /\ BothAbsent(i)
    /\ startTime[i] = Current(i).threshold
    /\ Current(i).filter # EmptyDoc
    /\ Result(i) = ConfigurationError

\* C2: an execute that reads a clock strictly after the threshold issues no
\* update_many, leaves the collection as it is and returns success.
C2_ThresholdNoOp ==
  [][\A i \in Instances :
       (pc[i] = "ready" /\ pc'[i] # "ready" /\ now > migrations[idx[i]].threshold)
       => /\ pc'[i] = "returned"
          /\ storeCalls'[i] = 0
          /\ response'[i] = {}
          /\ coll' = coll
          /\ results'[i][Len(results'[i])].res = Ok]_vars

C2_Witness ==
  \E i \in Instances :
    /\ Returned(i)
    /\ startTime[i] > Current(i).threshold
    /\ Current(i).set # {}
    /\ \E k \in DOMAIN coll : Matches(Current(i).filter, coll[k])
    /\ storeCalls[i] = 0
    /\ Result(i) = Ok

\* C3 as stated: an execute that reads a clock at or after the threshold, the
\* threshold itself included, issues no update_many and (set or unset being
\* given) returns success.
C3_NoOpAtOrAfterThreshold ==
  \A i \in Instances :
    pc[i] \in {"updating", "returned"} /\ startTime[i] >= Current(i).threshold
    => storeCalls[i] = 0 /\ (Returned(i) /\ ~BothAbsent(i) => Result(i) = Ok)

\* C4: when update_many returns Ok with a write exception in the response,
\* execute returns the WriteError of that exception, whatever the counts.
C4_WriteExceptionSurfaced ==
  \A i \in Instances :
    \A r \in response[i] :
      Returned(i) /\ r.ok /\ r.write_exception # {} =>
        \A wx \in r.write_exception :
          Result(i) = [tag |-> "WriteError", detail |-> wx]

C4_Witness ==
  \E i \in Instances :
    \E r \in response[i] :
      /\ Returned(i) /\ r.ok /\ r.write_exception # {}
      /\ r.matched_count > 0 /\ r.modified_count > 0
      /\ Result(i).tag = "WriteError"

\* C5: when update_many returns Err(e), execute returns that same e, having
\* issued that one call only.
C5_StoreErrorPropagated ==
  \A i \in Instances :
    \A r \in response[i] :
      Returned(i) /\ ~r.ok => Result(i) = r.error /\ storeCalls[i] = 1

C5_Witness ==
  \E i \in Instances :
    \E r \in response[i] :
      /\ Returned(i) /\ ~r.ok
      /\ r.error \in StoreErrors
      /\ Result(i) = r.error
      /\ coll # coll0

(* --------------------- idempotence and convergence --------------------- *)

\* A document holding the set values of m and lacking its unset fields.
Target(m, d) ==
  LET s == IF m.set = {} THEN EmptyDoc ELSE Unwrap(m.set)
      u == IF m.unset = {} THEN EmptyDoc ELSE Unwrap(m.unset)
  IN [k \in (DOMAIN d \cup DOMAIN s) \ DOMAIN u |->
        IF k \in DOMAIN s THEN s[k] ELSE d[k]]

\* The collection c after one complete execution of m.
Migrated(m, c) ==
  [k \in DOMAIN c |-> IF Matches(m.filter, c[k]) THEN Target(m, c[k]) ELSE c[k]]

\* Instance i's execute before the current one was of the same migration,
\* issued the update and returned Ok, and no other instance has written since.
AfterCleanRun(i, p) ==
  p.tag = "Ok" /\ p.calls = 1 /\ p.index = idx[i] /\ p.undisturbed

\* C6: when an instance executes a migration again after an execute of it
\* that issued the update and returned Ok, both before the threshold and no
\* other writer in between, the second update_many reports modified_count 0
\* and leaves the collection as the first run left it.
C6_Idempotent ==
  \A i \in Instances :
    \A p \in prev[i] :
      \A r \in response[i] :
        Returned(i) /\ AfterCleanRun(i, p) =>
          /\ r.ok => r.modified_count = 0
          /\ coll = p.snap

C6_Witness ==
  \E i \in Instances :
    \E p \in prev[i] :
      \E r \in response[i] :
        /\ Returned(i) /\ AfterCleanRun(i, p)
        /\ p.modified > 0
        /\ r.ok /\ r.write_exception = {}
        /\ r.matched_count > 0 /\ r.modified_count = 0
        /\ coll = p.snap

\* No instance but i has booted.
Alone(i) == \A j \in Instances \ {i} : pc[j] = "idle"

\* The first execute of the scenario, run alone and answered without a write
\* exception, reports 3 matched and 3 modified and returns Ok.
ScenarioFirstRun ==
  \A i \in Instances :
    \A r \in response[i] :
      Returned(i) /\ Alone(i) /\ prev[i] = {} /\ r.ok /\ r.write_exception = {}
      => r.matched_count = 3 /\ r.modified_count = 3 /\ Result(i) = Ok

\* The execute run right after a first one that returned Ok reports `matched`
\* matched and 0 modified.
ScenarioSecondRun(matched) ==
  \A i \in Instances :
    \A p \in prev[i] :
      \A r \in response[i] :
        Returned(i) /\ Alone(i) /\ AfterCleanRun(i, p) /\ r.ok /\ r.write_exception = {}
        => r.matched_count = matched /\ r.modified_count = 0

\* C7 as stated: in the scenario the first execute reports 3 matched and 3
\* modified and returns Ok, and the one run right after it reports 3 matched
\* and 0 modified.
C7_Original == ScenarioFirstRun /\ ScenarioSecondRun(3)

\* C7, amended: in the scenario the first execute reports 3 matched and 3
\* modified and returns Ok, and the one run right after it reports 0 matched
\* and 0 modified (no document has the field legacy any more, so the filter
\* selects none).
C7_Scenario == ScenarioFirstRun /\ ScenarioSecondRun(0)

C7_Witness ==
  \E i \in Instances :
    \E p \in prev[i] :
      \E r \in response[i] :
        /\ Returned(i) /\ Alone(i) /\ AfterCleanRun(i, p)
        /\ p.modified = 3
        /\ r.ok /\ r.write_exception = {}
        /\ r.matched_count = 0 /\ r.modified_count = 0
        /\ Result(i) = Ok

\* Every instance has run the migration, issued the update and got Ok.
AllExecuted ==
  \A i \in Instances :
    /\ pc[i] = "done"
    /\ \A p \in prev[i] : p.tag = "Ok" /\ p.calls = 1

\* C8: when every instance has executed the one migration before the
\* threshold, their per-document updates interleaved in any order, the
\* collection is the one a single execution yields: each document that matched
\* the filter holds the set values and lacks the unset fields, the others are
\* as they were.
C8_Converges == AllExecuted => coll = Migrated(migrations[1], coll0)

C8_Witness ==
  /\ AllExecuted
  /\ \A i \in Instances : \E p \in prev[i] : p.modified > 0
  /\ coll = Migrated(migrations[1], coll0)

\* C9: the Runner executes the migrations in declaration order, one at a
\* time; after an execute that returned an error nothing more is executed and
\* the Runner returns that error; it returns Ok only when every migration was
\* executed and returned Ok.
C9_RunnerOrder ==
  \A i \in Instances :
    /\ \A k \in DOMAIN results[i] :
         /\ results[i][k].index = k
         /\ k < Len(results[i]) => results[i][k].res = Ok
    /\ Len(results[i]) <= Len(migrations)
    /\ pc[i] = "done" =>
         IF IsErr(Result(i))
         THEN runnerResult[i] = Result(i)
         ELSE Len(results[i]) = Len(migrations) /\ runnerResult[i] = Ok

C9_Witness ==
  \E i \in Instances :
    /\ pc[i] = "done"
    /\ Len(migrations) = 2
    /\ Len(results[i]) = 1
    /\ Result(i).tag = "WriteError"
    /\ runnerResult[i] = Result(i)

\* Instance i's execute before the current one was of the same migration and
\* failed with a store or a write error.
AfterFailedRun(i, p) ==
  p.tag \in {"WriteError", "IoError", "OperationError"} /\ p.index = idx[i]

\* Every document that matched the filter of instance i's migration is in the
\* migrated field state.
Healed(i) ==
  \A k \in DOMAIN coll0 :
    Matches(Current(i).filter, coll0[k]) => coll[k] = Target(Current(i), coll0[k])

\* C10 as stated: after an execute that failed with a store or write error,
\* the next execute of the migration by that instance, the store healthy,
\* brings every document matching the filter to the migrated state.
C10_Original ==
  \A i \in Instances :
    \A p \in prev[i] :
      Returned(i) /\ AfterFailedRun(i, p) /\ Result(i) = Ok => Healed(i)

\* C10, amended: after an execute that failed with a store or write error,
\* the next execute of the migration by that instance, the store healthy and
\* the clock not after the threshold, brings every document matching the
\* filter to the migrated state.
C10_SelfHeals ==
  \A i \in Instances :
    \A p \in prev[i] :
      Returned(i) /\ AfterFailedRun(i, p) /\ Result(i) = Ok
        /\ startTime[i] <= Current(i).threshold
      => Healed(i)

C10_Witness ==
  \E i \in Instances :
    \E p \in prev[i] :
      /\ Returned(i) /\ AfterFailedRun(i, p) /\ Result(i) = Ok
      /\ startTime[i] <= Current(i).threshold
      /\ p.snap # coll
      /\ p.snap # coll0
      /\ Healed(i)

(* ------------------------ what execute sends --------------------------- *)

\* Instance i's execute has an update_many in flight.
Updating(i) == pc[i] = "updating"

\* C12: the update document of an update_many holds a "$set" clause, equal to
\* the set mapping, exactly when set is present, a "$unset" clause, equal to
\* the unset mapping, exactly when unset is present, and no other clause.
C12_UpdateShape ==
  \A i \in Instances :
    Updating(i) =>
      LET u == request[i].update
          m == Current(i)
      IN /\ DOMAIN u \subseteq {"$set", "$unset"}
         /\ "$set" \in DOMAIN u <=> m.set # {}
         /\ "$unset" \in DOMAIN u <=> m.unset # {}
         /\ \A d \in m.set : u["$set"] = d
         /\ \A d \in m.unset : u["$unset"] = d

C12_Witness ==
  \E i \in Instances :
    /\ Updating(i)
    /\ Current(i).set # {} /\ Current(i).unset # {}
    /\ DOMAIN request[i].update = {"$set", "$unset"}
    /\ request[i].update["$set"] # request[i].update["$unset"]

\* C13: an execute that reads a clock before the threshold, set or unset
\* given, issues exactly one update_many, whatever the executes before it, of
\* this or of another instance, did.
C13_AlwaysExecutes ==
  \A i \in Instances :
    pc[i] \in {"updating", "returned"} /\ startTime[i] < Current(i).threshold
      /\ ~BothAbsent(i)
    => storeCalls[i] = 1

C13_Witness ==
  \E i \in Instances :
    \E j \in Instances :
      \E q \in prev[j] :
        /\ Updating(i) /\ startTime[i] < Current(i).threshold
        /\ q.tag = "Ok" /\ q.calls = 1 /\ q.modified > 0
        /\ storeCalls[i] = 1

\* The fields a migration names in set or unset.
Named(m) ==
  UNION { DOMAIN d : d \in m.set } \cup UNION { DOMAIN d : d \in m.unset }

\* Field f is the same in documents d and e: held by both with one value, or
\* by neither.
SameField(f, d, e) ==
  /\ f \in DOMAIN d <=> f \in DOMAIN e
  /\ f \in DOMAIN d => d[f] = e[f]

\* C14: no step creates or removes a document; a document changes only under
\* an update_many whose filter it matches, and then only in the fields the
\* migration names in set or unset.
C14_Frame ==
  [][/\ Len(coll') = Len(coll)
     /\ \A k \in DOMAIN coll :
          coll'[k] # coll[k] =>
            \E i \in Instances :
              /\ Updating(i)
              /\ Matches(Current(i).filter, coll[k])
              /\ \A f \in (DOMAIN coll[k] \cup DOMAIN coll'[k]) \ Named(Current(i)) :
                   SameField(f, coll[k], coll'[k])]_vars

C14_Witness ==
  \E i \in Instances :
    \E k \in DOMAIN coll :
      \E n \in DOMAIN coll :
        /\ Updating(i) /\ request[i].cursor = Len(coll)
        /\ coll[k] # coll0[k] /\ Matches(Current(i).filter, coll0[k])
        /\ coll[n] = coll0[n] /\ ~Matches(Current(i).filter, coll0[n])
        /\ DOMAIN coll[k] \ Named(Current(i)) # {}

\* The number of members a majority of a replica set of n members has.
Majority(n) == (n \div 2) + 1

\* C15 as stated: every update_many carries options with upsert disabled and a
\* write concern that is journaled and acknowledged by a majority of the
\* replica set, whatever its size.
C15_Original ==
  \A i \in Instances :
    Updating(i) =>
      /\ request[i].options.upsert = FALSE
      /\ request[i].options.write_concern.j = TRUE
      /\ \A n \in 1..MaxMembers : request[i].options.write_concern.w >= Majority(n)

\* C15, amended: every update_many carries options with upsert disabled and
\* the write concern {w: 1, w_timeout: 0, j: true, fsync: false}: the write is
\* acknowledged by one member, after it has been journaled.
C15_Options ==
  \A i \in Instances :
    Updating(i) =>
      /\ request[i].options.upsert = FALSE
      /\ request[i].options.write_concern.j = TRUE
      /\ request[i].options.write_concern.w = Majority(1)
      /\ request[i].options.write_concern.w_timeout = 0
      /\ request[i].options.write_concern.fsync = FALSE

C15_Witness ==
  \E i \in Instances :
    /\ Updating(i) /\ request[i].cursor > 0
    /\ request[i].options.upsert = FALSE
    /\ request[i].options.write_concern.j = TRUE

\* C17: an execute that returns the configuration error is one of a migration
\* with set and unset both absent, has issued no update_many and has left the
\* collection as it was.
C17_GuardBeforeUpdate ==
  [][\A i \in Instances :
       (pc[i] # "returned" /\ pc'[i] = "returned"
          /\ results'[i][Len(results'[i])].res = ConfigurationError)
       => /\ pc[i] = "ready"
          /\ migrations[idx[i]].set = {} /\ migrations[idx[i]].unset = {}
          /\ storeCalls'[i] = 0
          /\ response'[i] = {}
          /\ coll' = coll]_vars

C17_Witness ==
  \E i \in Instances :
    \E j \in Instances \ {i} :
      /\ Returned(i) /\ Result(i) = ConfigurationError
      /\ storeCalls[i] = 0
      /\ pc[j] = "idle"
      /\ coll = coll0


(* ------------------------------ the derive ---------------------------- *)

\* C11: the build derives Model for a struct only if the struct has a field
\* named id carrying rename="_id" and skip_serializing_if="Option::is_none",
\* any other struct is rejected; and a Runner only ever runs in a program
\* whose struct has passed that test.
C11_DeriveGuard ==
  LET validated ==
        \E f \in source.id :
          f.rename = "_id" /\ f.skip_serializing_if = "Option::is_none"
  IN /\ build = "derived" => validated
     /\ build # "pending" /\ ~validated => build = "rejected"
     /\ \A i \in Instances : pc[i] # "idle" => build = "derived" /\ validated

C11_Witness ==
  /\ build = "rejected"
  /\ source.id = Some(BadModelId)
  /\ \A i \in Instances : pc[i] = "idle"

\* The elements of an emitted `vec![...]`: what stands between `[` and `]`.
Elements(t) == SubSeq(t, 4, Len(t) - 1)

\* C18 as stated: the tokens emitted for the indexes of a derived struct are a
\* vec expression with one element for each index model, in the order of the
\* list.
C18_OneElementPerIndex ==
  build = "derived" =>
    /\ Len(tokens) >= 4
    /\ SubSeq(tokens, 1, 3) = <<"vec", "!", "[">>
    /\ tokens[Len(tokens)] = "]"
    /\ Elements(tokens) = source.indexes

(* -------------------------- rolling deployment ------------------------- *)

\* Every instance has been updated: none runs the old code any more.
FleetUpdated == \A j \in Instances : pc[j] # "idle"

\* No document matching the filter of the migration is in the old field state.
Converged ==
  \A k \in DOMAIN coll :
    Matches(migrations[1].filter, coll[k]) =>
      coll[k] = Target(migrations[1], coll[k])

\* The instance updated last has executed the migration, not after the
\* threshold, and got Ok.
FinalExecuted ==
  \E i \in Instances :
    /\ final[i] /\ Returned(i)
    /\ storeCalls[i] = 1 /\ Result(i) = Ok
    /\ startTime[i] <= migrations[1].threshold

\* C16: while instances not yet updated insert documents with the old schema
\* and updated ones run the migration at boot, once the instance updated last
\* has executed the migration (not after the threshold, answered Ok) no
\* document matching the filter is in the old field state, and with every
\* instance updated it stays so in every later step.
C16_RollingConverges ==
  [][/\ FinalExecuted' => Converged'
     /\ FleetUpdated /\ Converged => Converged']_vars

C16_Witness ==
  \E i \in Instances :
    \E j \in Instances \ {i} :
      \E p \in prev[j] :
        /\ final[i] /\ Returned(i) /\ storeCalls[i] = 1 /\ Result(i) = Ok
        /\ p.tag = "Ok" /\ p.calls = 1
        /\ Len(p.snap) < Len(coll)
        /\ Unwrap(response[i]).modified_count > 0
        /\ Converged

====
